---- MODULE Spec2Model ----
(***************************************************************************)
(* A model of the RushFiles provider of waterbutler                        *)
(* (waterbutler/providers/rushfiles/provider.py).                          *)
(*                                                                         *)
(* The remote service is a set of entities, each with an internal          *)
(* identifier, a display name, a parent identifier and a kind.  Every      *)
(* coroutine of the provider is a small state machine whose steps are the  *)
(* stretches of code between two awaited remote calls; each step issues    *)
(* one request, appends it to `log`, and continues with the response.      *)
(***************************************************************************)
EXTENDS Integers, Sequences, FiniteSets, TLC

VARIABLES
    tree,     \* the remote share: a set of entity records
    log,      \* every request sent so far, with the status that answered it
    pc,       \* where the running operation is suspended
    result,   \* what the finished operation returned or raised
    rv,       \* validate_path: its argument and local variables
    results,  \* outcomes of the validate_path calls completed so far
    up,       \* the uploads: per call, its arguments, locals and position
    dl,       \* delete: its argument, the folders being emptied, its caller
    mv,       \* intra_move and intra_copy: their arguments and locals
    fm,       \* _file_metadata by revision: its arguments
    cf,       \* create_folder: its arguments
    rs,       \* revisions: its argument and the file's history
    rp        \* revalidate_path: its arguments

vars == <<tree, log, pc, result, rv, results, up, dl, mv, fm, cf, rs, rp>>

----------------------------------------------------------------------------
(* Bounds of the model. *)

\* entities in the initial remote tree of a resolution or an upload
MaxEnt == 2
\* entities in the initial remote tree of a delete, a move or a copy
MaxNodes == 3
\* segments of a path handed to validate_path
MaxDepth == 2
\* validate_path calls made one after the other on the same path
MaxResolves == 2
\* the largest declared size of an uploaded stream, in bytes
MaxSize == 4
\* the largest settings.CHUNK_SIZE tried, in bytes
MaxChunk == 3
\* the highest version tick in a file's history
MaxTick == 3
\* changes other clients make to the share while a delete is running
MaxOthers == 2

----------------------------------------------------------------------------
(* Identifiers, names, paths. *)

\* self.share['id']: the identifier of the share's root folder
RootId == 0
\* Python's None as an identifier
None == -1

\* an identifier the remote never heard of (a deleted entity's)
StaleId == MaxEnt + MaxNodes + 1
\* the identifiers the remote hands out to entities created later
NewIds == (StaleId + 1)..(StaleId + 2)
MaxId == StaleId + 2

Names == {"a", "b"}
\* path segments as they arrive, still URL-quoted
RawSegs == {"a", "b", "%61"}

\* parse.unquote on one segment
unquote(x) == IF x = "%61" THEN "a" ELSE x

RECURSIVE SeqsUpTo(_, _)
SeqsUpTo(S, n) ==
    IF n = 0 THEN {<<>>}
    ELSE LET shorter == SeqsUpTo(S, n - 1)
         IN  shorter \cup {Append(s, x) : s \in {t \in shorter : Len(t) = n - 1}, x \in S}

\* a raw path string: "/" is segs = <<>>; a trailing slash is is_folder
RawPaths ==
    {[segs |-> s, is_folder |-> f] :
        s \in SeqsUpTo(RawSegs, MaxDepth) \ {<<>>}, f \in BOOLEAN}
    \cup {[segs |-> <<>>, is_folder |-> TRUE]}

----------------------------------------------------------------------------
(* The remote share. *)

Entity(i, n, p, f) == [id |-> i, name |-> n, parent |-> p, isFile |-> f]

Known(t, i) == i = RootId \/ \E e \in t : e.id = i
IsFolderId(t, i) == i = RootId \/ \E e \in t : e.id = i /\ ~e.isFile
Ent(t, i) == CHOOSE e \in t : e.id = i

\* The trees a share can hold: identifiers are unique, every parent is the
\* root or a folder created earlier.
RECURSIVE TreesUpTo(_)
TreesUpTo(k) ==
    IF k = 0 THEN {{}}
    ELSE LET smaller == TreesUpTo(k - 1)
         IN  smaller \cup
             {t \cup {Entity(k, n, p, f)} :
                 t \in smaller, n \in Names, f \in BOOLEAN,
                 p \in {RootId} \cup (1..(k - 1))}

WellFormed(t) == \A e \in t : IsFolderId(t, e.parent)
Trees == {t \in TreesUpTo(MaxEnt) : WellFormed(t)}
BigTrees == {t \in TreesUpTo(MaxNodes) : WellFormed(t)}

\* One entry of a children listing, with the remote's field names.
Data(e) == [InternalName |-> e.id, PublicName |-> e.name, IsFile |-> e.isFile]

\* GET virtualfiles/{id}/children: the direct children, in the remote's
\* order (by identifier).
RECURSIVE ChildrenFrom(_, _, _)
ChildrenFrom(t, p, k) ==
    IF k > MaxId THEN <<>>
    ELSE (IF \E e \in t : e.id = k /\ e.parent = p
          THEN <<Data(Ent(t, k))>> ELSE <<>>) \o ChildrenFrom(t, p, k + 1)

Children(t, p) == ChildrenFrom(t, p, 1)

\* The statuses the children endpoint can answer with: 404 for an unknown
\* identifier, 200 otherwise, or 500 when the service fails.
ChildrenStatuses(t, i) == (IF Known(t, i) THEN {200} ELSE {404}) \cup {500}

----------------------------------------------------------------------------
(* Outcomes. *)

Raise(kind) == [kind |-> kind]
\* RushFilesPath(path, _ids=..., folder=...)
RushFilesPath(names, ids, folder) ==
    [kind |-> "path", names |-> names, _ids |-> ids, folder |-> folder]
NoResult == [kind |-> "none"]
Returned == [kind |-> "returned"]

\* make_request(method, url, expects=..., throws=...): the request is sent
\* once; a status outside `expects` raises `throws`
make_request(status, expects, throws) ==
    IF status \in expects THEN Returned ELSE Raise(throws)

----------------------------------------------------------------------------
(* _search_inter_id: the first entry whose PublicName is `child`. *)

Matches(res, child) == {k \in 1..Len(res) : res[k].PublicName = child}

MinOf(S) == CHOOSE k \in S : \A m \in S : k <= m


_search_inter_id(res, child) ==
    LET m == Matches(res, child)
    IN  IF m = {} THEN <<None, None>>
        ELSE <<res[MinOf(m)].InternalName, MinOf(m)>>

----------------------------------------------------------------------------
(* validate_path *)

Unquoted(segs) == [k \in 1..Len(segs) |-> unquote(segs[k])]

\* as a bug: the identifiers found by the previous call are still there when
\* the next one starts
vp_locals_kept(path, v1) ==
    IF results = <<>>
    THEN [path |-> path, v1 |-> v1, is_folder |-> path.is_folder,
          children_path_list |-> Unquoted(path.segs),
          inter_id_list |-> <<RootId>>, current_inter_id |-> RootId, i |-> 0]
    ELSE [rv EXCEPT !.i = 0]

\* the local variables as the call starts
vp_locals(path, v1) ==
    [path |-> path,
     v1 |-> v1,
     is_folder |-> path.is_folder,
     children_path_list |-> Unquoted(path.segs),
     inter_id_list |-> <<RootId>>,
     current_inter_id |-> RootId,
     i |-> 0]

\* The call: path == '/' returns at once, anything else enters the loop.
validate_path_call ==
    /\ pc = "idle"
    /\ Len(results) < MaxResolves
    /\ IF rv.path.segs = <<>>
       THEN /\ result' = RushFilesPath(<<>>, <<RootId>>, TRUE)
            /\ pc' = "vp_done"
            /\ rv' = rv
       ELSE /\ rv' = vp_locals(rv.path, rv.v1)
            /\ pc' = "vp_loop"
            /\ result' = NoResult
    /\ UNCHANGED <<tree, log, results, up, dl, mv, fm, cf, rs, rp>>

\* as a bug: a segment without a match ends the walk with a path, wherever
\* it is
vp_after_listing_partial(l, res) ==
    LET child == l.children_path_list[l.i + 1]
        found == _search_inter_id(res, child)
        ids   == Append(l.inter_id_list, found[1])
        last  == l.i = Len(l.children_path_list) - 1
    IN  IF found[1] = None
        THEN RushFilesPath(l.children_path_list, ids, l.is_folder)
        ELSE IF ~last
             THEN NoResult
             ELSE IF res[found[2]].IsFile = l.is_folder
                  THEN Raise("NotFoundError")
                  ELSE RushFilesPath(l.children_path_list, ids, l.is_folder)

\* as a bug: the kind of the last match is not looked at
vp_after_listing_anykind(l, res) ==
    LET child == l.children_path_list[l.i + 1]
        found == _search_inter_id(res, child)
        ids   == Append(l.inter_id_list, found[1])
        last  == l.i = Len(l.children_path_list) - 1
    IN  IF found[1] = None
        THEN IF last
             THEN RushFilesPath(l.children_path_list, ids, l.is_folder)
             ELSE Raise("NotFoundError")
        ELSE IF ~last
             THEN NoResult
             ELSE RushFilesPath(l.children_path_list, ids, l.is_folder)

\* The outcome of one loop iteration once the listing answered 200, and of
\* the kind check that follows the last iteration.
vp_after_listing(l, res) ==
    LET child == l.children_path_list[l.i + 1]
        found == _search_inter_id(res, child)
        ids   == Append(l.inter_id_list, found[1])
        last  == l.i = Len(l.children_path_list) - 1
    IN  IF found[1] = None
        THEN IF last
             THEN RushFilesPath(l.children_path_list, ids, l.is_folder)
             ELSE Raise("NotFoundError")
        ELSE IF ~last
             THEN NoResult
             ELSE IF res[found[2]].IsFile = l.is_folder
                  THEN Raise("NotFoundError")
                  ELSE RushFilesPath(l.children_path_list, ids, l.is_folder)

\* The outcome of one iteration, from the answer of its children request.
vp_step_outcome(status, l, res) ==
    IF status = 404 THEN Raise("NotFoundError")
    ELSE IF status # 200 THEN Raise("MetadataError")
    ELSE vp_after_listing(l, res)

\* One iteration of the loop: the children request and what follows it up
\* to the next request or the return.
validate_path_step ==
    /\ pc = "vp_loop"
    /\ \E status \in ChildrenStatuses(tree, rv.current_inter_id) :
        LET res   == Children(tree, rv.current_inter_id)
            out   == vp_step_outcome(status, rv, res)
            found == _search_inter_id(res, rv.children_path_list[rv.i + 1])
        IN  /\ log' = Append(log, [method |-> "GET", what |-> "children",
                                   id |-> rv.current_inter_id, status |-> status,
                                   call |-> Len(results) + 1])
            /\ result' = out
            /\ IF out = NoResult
               THEN /\ rv' = [rv EXCEPT !.current_inter_id = found[1],
                                        !.inter_id_list = Append(@, found[1]),
                                        !.i = @ + 1]
                    /\ pc' = "vp_loop"
               ELSE /\ rv' = rv
                    /\ pc' = "vp_done"
    /\ UNCHANGED <<tree, results, up, dl, mv, fm, cf, rs, rp>>

\* identifier: the last part's
identifier(p) == p._ids[Len(p._ids)]

\* validate_v1_path: a path without an identifier is not found
validate_v1_path(out) ==
    IF out.kind = "path" /\ identifier(out) = None
    THEN Raise("NotFoundError")
    ELSE out

\* The caller takes the outcome (through validate_v1_path when it entered
\* there); the provider is ready for the next call.
validate_path_return ==
    /\ pc = "vp_done"
    /\ results' = Append(results, IF rv.v1 THEN validate_v1_path(result) ELSE result)
    /\ pc' = "idle"
    /\ UNCHANGED <<tree, log, result, rv, up, dl, mv, fm, cf, rs, rp>>

InitResolve ==
    /\ tree \in Trees
    /\ log = <<>>
    /\ pc = "idle"
    /\ result = NoResult
    /\ \E p \in RawPaths, v1 \in BOOLEAN :
          rv = [path |-> p, v1 |-> v1, is_folder |-> p.is_folder,
                children_path_list |-> <<>>, inter_id_list |-> <<>>,
                current_inter_id |-> None, i |-> 0]
    /\ results = <<>>
    /\ up = <<>>
    /\ dl = <<>>
    /\ mv = <<>>
    /\ fm = <<>>
    /\ cf = <<>>
    /\ rs = <<>>
    /\ rp = <<>>

NextResolve ==
    \/ validate_path_call
    \/ validate_path_step
    \/ validate_path_return

SpecResolve == InitResolve /\ [][NextResolve]_vars

----------------------------------------------------------------------------
(* What a walk of the tree finds, read off the tree itself. *)

\* the entities named n directly under p
Named(t, p, n) == {e \in t : e.parent = p /\ e.name = n}

\* the entity a listing shows first under that name
FirstNamed(t, p, n) ==
    CHOOSE e \in Named(t, p, n) : \A o \in Named(t, p, n) : e.id <= o.id

\* the identifier reached after the first k names, None once a name is missing
RECURSIVE WalkId(_, _, _)
WalkId(t, names, k) ==
    IF k = 0 THEN RootId
    ELSE LET p == WalkId(t, names, k - 1)
         IN  IF p = None \/ Named(t, p, names[k]) = {} THEN None
             ELSE FirstNamed(t, p, names[k]).id

\* the first segment without a match; Len(names) + 1 when all match
FirstMiss(t, names) ==
    IF \A k \in 1..Len(names) : WalkId(t, names, k) # None
    THEN Len(names) + 1
    ELSE CHOOSE k \in 1..Len(names) :
            /\ WalkId(t, names, k) = None
            /\ \A j \in 1..(k - 1) : WalkId(t, names, j) # None

VpNames == Unquoted(rv.path.segs)
VpFinished == pc = "vp_done" /\ rv.path.segs # <<>> /\ result.kind # "MetadataError"

(* C7: validate_path never returns a partial success.  When the first      *)
(* segment without a match is not the last one the call raises             *)
(* NotFoundError; when it is the last one the call returns a path whose    *)
(* identifiers start with the share root, are present for every segment    *)
(* but the last, and absent for the last.  Every returned path holds one   *)
(* identifier slot per segment plus the root, only the last possibly None. *)
C7_NoPartialSuccess ==
    VpFinished =>
        LET n == Len(VpNames)
            m == FirstMiss(tree, VpNames)
        IN  /\ m < n => result = Raise("NotFoundError")
            /\ m = n =>
                  /\ result.kind = "path"
                  /\ result._ids[1] = RootId
                  /\ \A k \in 1..n : result._ids[k] # None
                  /\ result._ids[n + 1] = None
            /\ result.kind = "path" =>
                  /\ Len(result._ids) = n + 1
                  /\ \A k \in 1..n : result._ids[k] # None
                  /\ \A k \in 1..(n + 1) : result._ids[k] = WalkId(tree, VpNames, k - 1)

\* a two-segment path whose first segment is missing was answered
C7_Witness ==
    /\ VpFinished
    /\ Len(VpNames) >= 2
    /\ FirstMiss(tree, VpNames) = 1
    /\ result = Raise("NotFoundError")

\* every segment matches and the last match is of the other kind
WrongKind ==
    LET n == Len(VpNames)
    IN  /\ FirstMiss(tree, VpNames) = n + 1
        /\ Ent(tree, WalkId(tree, VpNames, n)).isFile = rv.path.is_folder

(* C8: when every segment matches and the entry matched last is of the     *)
(* other kind (a file for a path with a trailing slash, a folder for one   *)
(* without), validate_path raises NotFoundError, at every depth; through   *)
(* validate_v1_path that is what an absent last entry gives too.           *)
C8_WrongKindNotFound ==
    /\ (VpFinished /\ WrongKind) => result = Raise("NotFoundError")
    /\ (VpFinished /\ rv.v1 /\ FirstMiss(tree, VpNames) = Len(VpNames))
          => validate_v1_path(result) = Raise("NotFoundError")

\* a file met at the deepest level by a path with a trailing slash
C8_Witness ==
    /\ VpFinished
    /\ WrongKind
    /\ Len(VpNames) = MaxDepth
    /\ rv.path.is_folder
    /\ result = Raise("NotFoundError")

----------------------------------------------------------------------------
(* Paths held by a caller: the terminal segment's name and identifier, the *)
(* parent's identifier, and the kind the path string implies.              *)

WBPath(name, parent, id, folder) ==
    [name |-> name, parent |-> parent, identifier |-> id, is_folder |-> folder]

PathOf(e) == WBPath(e.name, e.parent, e.id, ~e.isFile)

FolderIds(t) == {RootId} \cup {e.id : e \in {x \in t : ~x.isFile}}

\* file paths validate_path can have returned: an existing file, a name not
\* taken in an existing folder, and a file the remote has dropped since
FilePaths(t) ==
    {PathOf(e) : e \in {x \in t : x.isFile}}
    \cup {WBPath(n, p, None, FALSE) :
            n \in {x \in Names : \A e \in t : ~(e.name = x /\ e.parent = RootId)},
            p \in {RootId}}
    \cup {WBPath(n, p, None, FALSE) :
            p \in FolderIds(t) \ {RootId},
            n \in {x \in Names : \A e \in t : e.name # x}}
    \cup {WBPath("a", RootId, StaleId, FALSE)}

\* GET virtualfiles/{id}: 404 for an unknown identifier, 200 otherwise, or
\* 500 when the service fails
MetadataStatuses(t, i) == (IF Known(t, i) THEN {200} ELSE {404}) \cup {500}

\* POST files, PUT files/{id} with an envelope: success, 404 for an unknown
\* identifier, or 500 when the service fails
FilesStatuses(t, method, i) ==
    (IF method = "PUT" /\ ~Known(t, i) THEN {404} ELSE {200}) \cup {500}

\* PUT of a byte range on the upload url: success, or 500; a body shorter
\* than its Content-Length is never answered with success
ChunkStatuses(sent, length) == IF sent < length THEN {400, 500} ELSE {200, 500}

\* the identifier the remote gives the next entity it creates
FreshId(t) == CHOOSE i \in NewIds : /\ ~Known(t, i)
                                    /\ \A j \in NewIds : ~Known(t, j) => i <= j

----------------------------------------------------------------------------
(* upload, _upload_request, _upload_file *)

Min(a, b) == IF a < b THEN a ELSE b

\* as a bug: an empty stream enters the binary phase too
has_binary_phase_ge(size) == size >= 0

\* upload: stream.size > 0 sends the bytes after the request
has_binary_phase(size) == size > 0

\* as a bug: the window is not cut at the end of the stream
chunk_end_uncut(position, CHUNK_SIZE, size) == position + CHUNK_SIZE

\* _upload_file: end = min(position + self.CHUNK_SIZE, stream.size)
chunk_end(position, CHUNK_SIZE, size) == Min(position + CHUNK_SIZE, size)

\* the statuses each request accepts
upload_request_expects == {200, 202}
\* as a bug: a chunk write accepts whatever the remote answers
upload_file_expects_any == {200, 201, 202, 400, 500}
upload_file_expects == {200, 201, 202}

\* as a bug: an update stamps the creation time anew
upload_request_body_now(path, size, created) ==
    [InternalName |-> IF ~created THEN path.identifier ELSE None,
     ParrentId |-> path.parent,
     EndOfFile |-> size,
     PublicName |-> path.name,
     CreationTime |-> "now",
     ClientJournalEventType |-> IF created THEN "CREATE" ELSE "UPDATE"]

\* _upload_request: the envelope
upload_request_body(path, size, created) ==
    [InternalName |-> IF ~created THEN path.identifier ELSE None,
     ParrentId |-> path.parent,
     EndOfFile |-> size,
     PublicName |-> path.name,
     CreationTime |-> IF created THEN "now" ELSE "created_utc",
     ClientJournalEventType |-> IF created THEN "CREATE" ELSE "UPDATE"]

\* RushFilesFileMetadata decoded from the response logged at `response`
Uploaded(response, created) ==
    [kind |-> "metadata", response |-> response, created |-> created]

\* can_duplicate_names
can_duplicate_names == FALSE

\* as a bug: the negation is lost
upload_created_same(exists) == exists

\* upload: created = not await self.exists(path)
upload_created(exists) == ~exists

\* where upload goes once exists() has answered: _upload_request fetches the
\* prior metadata of a path that is not created
AfterExists(created) == IF created THEN "up_request" ELSE "up_prior"

\* upload is called: exists() answers without a request for a path that has
\* no identifier; `decided` remembers how many requests had been sent when
\* created was set
upload_call(u) ==
    /\ up[u].pc = "idle"
    /\ up' = IF up[u].path.identifier = None
             THEN [up EXCEPT ![u].pc = AfterExists(upload_created(FALSE)),
                             ![u].created = upload_created(FALSE),
                             ![u].decided = Len(log)]
             ELSE [up EXCEPT ![u].pc = "up_exists"]
    /\ UNCHANGED <<tree, log, pc, result, rv, results, dl, mv, fm, cf, rs, rp>>

\* exists(path): metadata(path), NotFoundError and a 404 MetadataError read
\* as absent
upload_exists(u) ==
    /\ up[u].pc = "up_exists"
    /\ \E status \in MetadataStatuses(tree, up[u].path.identifier) :
        /\ log' = Append(log, [by |-> u, method |-> "GET", what |-> "metadata",
                               id |-> up[u].path.identifier, status |-> status])
        /\ up' = IF status \in {200, 404}
                 THEN [up EXCEPT ![u].created = upload_created(status = 200),
                                 ![u].pc = AfterExists(upload_created(status = 200)),
                                 ![u].decided = Len(log')]
                 ELSE [up EXCEPT ![u].pc = "up_done",
                                 ![u].result = Raise("MetadataError")]
    /\ UNCHANGED <<tree, pc, result, rv, results, dl, mv, fm, cf, rs, rp>>

\* _upload_request, not created: metadata = await self.metadata(path)
upload_prior(u) ==
    /\ up[u].pc = "up_prior"
    /\ \E status \in MetadataStatuses(tree, up[u].path.identifier) :
        /\ log' = Append(log, [by |-> u, method |-> "GET", what |-> "metadata",
                               id |-> up[u].path.identifier, status |-> status])
        /\ up' = IF status = 200
                 THEN [up EXCEPT ![u].pc = "up_request"]
                 ELSE [up EXCEPT ![u].pc = "up_done",
                                 ![u].result = Raise(IF status = 404 THEN "NotFoundError"
                                                     ELSE "MetadataError")]
    /\ UNCHANGED <<tree, pc, result, rv, results, dl, mv, fm, cf, rs, rp>>

\* _upload_request: the create-or-update request; then upload returns, or
\* _upload_file starts
upload_request(u) ==
    /\ up[u].pc = "up_request"
    /\ LET l      == up[u]
           method == IF l.created THEN "POST" ELSE "PUT"
           target == IF l.created THEN None ELSE l.path.identifier
       IN  \E status \in FilesStatuses(tree, method, target) :
            /\ log' = Append(log, [by |-> u, method |-> method, what |-> "files",
                                   id |-> target, status |-> status,
                                   body |-> upload_request_body(l.path, l.stream.size,
                                                                l.created)])
            /\ tree' = IF status \in upload_request_expects /\ l.created
                       THEN tree \cup {Entity(FreshId(tree), l.path.name,
                                              l.path.parent, TRUE)}
                       ELSE tree
            /\ up' = IF status \notin upload_request_expects
                     THEN [up EXCEPT ![u].pc = "up_done",
                                     ![u].result = make_request(status,
                                         upload_request_expects, "UploadError")]
                     ELSE IF ~has_binary_phase(l.stream.size)
                     THEN [up EXCEPT ![u].pc = "up_done",
                                     ![u].result = Uploaded(Len(log'), l.created)]
                     ELSE IF 0 < l.stream.size
                     THEN [up EXCEPT ![u].pc = "up_chunk", ![u].position = 0]
                     ELSE [up EXCEPT ![u].pc = "up_done",
                                     ![u].result = Raise("UnboundLocalError")]
    /\ UNCHANGED <<pc, result, rv, results, dl, mv, fm, cf, rs, rp>>

\* _upload_file: one pass of the loop, and the return after the last one
upload_chunk(u) ==
    /\ up[u].pc = "up_chunk"
    /\ LET l    == up[u]
           end  == chunk_end(l.position, l.CHUNK_SIZE, l.stream.size)
           sent == Min(end - l.position, l.stream.left)
       IN  \E status \in ChunkStatuses(sent, end - l.position) :
            /\ log' = Append(log, [by |-> u, method |-> "PUT", what |-> "chunk",
                                   position |-> l.position, end_1 |-> end - 1,
                                   length |-> end - l.position, sent |-> sent,
                                   status |-> status])
            /\ up' = IF status \notin upload_file_expects
                     THEN [up EXCEPT ![u].pc = "up_done",
                                     ![u].stream.left = @ - sent,
                                     ![u].result = make_request(status,
                                         upload_file_expects, "UploadError")]
                     ELSE IF end < l.stream.size
                     THEN [up EXCEPT ![u].position = end,
                                     ![u].stream.left = @ - sent]
                     ELSE [up EXCEPT ![u].position = end,
                                     ![u].stream.left = @ - sent,
                                     ![u].pc = "up_done",
                                     ![u].result = Uploaded(Len(log'), l.created)]
    /\ UNCHANGED <<tree, pc, result, rv, results, dl, mv, fm, cf, rs, rp>>

\* the streams handed to upload: `size` is the declared size, `left` the
\* bytes read() can still yield, which a faulty source makes fewer or more
Streams == {[size |-> n, left |-> m] : n \in 0..MaxSize, m \in 0..(MaxSize + 1)}

\* `readable` remembers what the stream could yield when the call started
UploadCall(stream, chunk, path) ==
    [pc |-> "idle", stream |-> stream, CHUNK_SIZE |-> chunk, path |-> path,
     created |-> FALSE, position |-> 0, result |-> NoResult,
     readable |-> stream.left, decided |-> None]

InitUpload ==
    /\ tree \in Trees
    /\ log = <<>>
    /\ pc = "idle"
    /\ result = NoResult
    /\ rv = <<>>
    /\ results = <<>>
    /\ \E stream \in Streams, chunk \in 1..MaxChunk, path \in FilePaths(tree) :
          up = <<UploadCall(stream, chunk, path)>>
    /\ dl = <<>>
    /\ mv = <<>>
    /\ fm = <<>>
    /\ cf = <<>>
    /\ rs = <<>>
    /\ rp = <<>>

NextUpload ==
    \/ \E u \in DOMAIN up : upload_call(u)
    \/ \E u \in DOMAIN up : upload_exists(u)
    \/ \E u \in DOMAIN up : upload_prior(u)
    \/ \E u \in DOMAIN up : upload_request(u)
    \/ \E u \in DOMAIN up : upload_chunk(u)

SpecUpload == InitUpload /\ [][NextUpload]_vars

\* what upload u has sent
Sent(u, what) == SelectSeq(log, LAMBDA r : r.by = u /\ r.what = what)
UploadedOk(u) == up[u].pc = "up_done" /\ up[u].result.kind = "metadata"

(* C1: the chunk writes of an upload of S > 0 bytes with chunk size C >= 1 *)
(* start at byte 0, each starts where the one before ended, each carries a *)
(* Content-Length equal to its window of at most C bytes, none reaches     *)
(* beyond byte S-1; an upload that succeeded has sent ceil(S/C) of them    *)
(* and the last one ends at S-1.                                           *)
C1_ChunksCover ==
    \A u \in DOMAIN up :
        LET ch == Sent(u, "chunk")
            S  == up[u].stream.size
            C  == up[u].CHUNK_SIZE
        IN  /\ \A k \in 1..Len(ch) :
                  /\ ch[k].position = IF k = 1 THEN 0 ELSE ch[k - 1].end_1 + 1
                  /\ ch[k].length = ch[k].end_1 - ch[k].position + 1
                  /\ ch[k].length >= 1
                  /\ ch[k].length <= C
                  /\ ch[k].end_1 <= S - 1
            /\ (UploadedOk(u) /\ S > 0) =>
                  /\ Len(ch) = (S + C - 1) \div C
                  /\ ch[Len(ch)].end_1 = S - 1

\* an upload in several chunks, the last one shorter, has succeeded
C1_Witness ==
    \E u \in DOMAIN up :
        /\ UploadedOk(u)
        /\ up[u].stream.size > up[u].CHUNK_SIZE
        /\ up[u].stream.size % up[u].CHUNK_SIZE # 0
        /\ Len(Sent(u, "chunk")) >= 2

(* C2: an upload of a zero-byte stream sends no chunk write and at most    *)
(* one create-or-update request, for a new path and for an existing one;   *)
(* once that request is answered with success the upload is over and its   *)
(* result is decoded from that answer.                                     *)
C2_ZeroByte ==
    \A u \in DOMAIN up :
        up[u].stream.size = 0 =>
            LET rq == Sent(u, "files")
            IN  /\ Len(Sent(u, "chunk")) = 0
                /\ Len(rq) <= 1
                /\ UploadedOk(u) => Len(rq) = 1
                /\ (Len(rq) = 1 /\ rq[1].status \in upload_request_expects) =>
                      /\ UploadedOk(u)
                      /\ log[up[u].result.response] = rq[1]

\* a zero-byte upload onto an existing file has succeeded
C2_Witness ==
    \E u \in DOMAIN up :
        /\ up[u].stream.size = 0
        /\ UploadedOk(u)
        /\ ~up[u].result.created
        /\ Len(Sent(u, "files")) = 1

(* C11: an upload whose stream can yield fewer or more bytes than its      *)
(* declared size does not succeed, it ends in UploadError once its         *)
(* requests are sent; and no upload that succeeded has sent a chunk whose  *)
(* payload is not as long as its byte range and Content-Length.            *)
C11_MismatchFails ==
    \A u \in DOMAIN up :
        /\ (up[u].pc = "up_done" /\ up[u].readable # up[u].stream.size
                /\ \A k \in 1..Len(Sent(u, "metadata")) :
                       Sent(u, "metadata")[k].status \in {200, 404})
              => up[u].result = Raise("UploadError")
        /\ UploadedOk(u) =>
              \A k \in 1..Len(Sent(u, "chunk")) :
                  Sent(u, "chunk")[k].sent = Sent(u, "chunk")[k].length

\* a 2xx answer
Success(status) == status \div 100 = 2

\* the path of upload u has an entity on the remote
Exists(u) == up[u].path.identifier # None /\ Known(tree, up[u].path.identifier)

\* where in the log the create-or-update request of upload u is
FilesAt(u) == {k \in 1..Len(log) : log[k].by = u /\ log[k].what = "files"}

(* C17: the create-or-update request of an upload whose path has no entity *)
(* on the remote is POST files with event type CREATE, no internal name    *)
(* and the creation time now; for a path that has one it is PUT            *)
(* files/{identifier} with event type UPDATE, the identifier as internal   *)
(* name and the creation time of the metadata fetched by the request just  *)
(* before it.  upload returns created = true in the first case and false   *)
(* in the second.                                                          *)
C17_CreateOrUpdate ==
    \A u \in DOMAIN up :
        /\ \A k \in FilesAt(u) :
              LET r == log[k]
              IN  /\ r.body.PublicName = up[u].path.name
                  /\ r.body.ParrentId = up[u].path.parent
                  /\ r.body.EndOfFile = up[u].stream.size
                  /\ IF ~Exists(u)
                     THEN /\ r.method = "POST"
                          /\ r.id = None
                          /\ r.body.ClientJournalEventType = "CREATE"
                          /\ r.body.InternalName = None
                          /\ r.body.CreationTime = "now"
                     ELSE /\ r.method = "PUT"
                          /\ r.id = up[u].path.identifier
                          /\ r.body.ClientJournalEventType = "UPDATE"
                          /\ r.body.InternalName = up[u].path.identifier
                          /\ r.body.CreationTime = "created_utc"
                          /\ k > 1
                          /\ log[k - 1].by = u
                          /\ log[k - 1].what = "metadata"
                          /\ log[k - 1].id = up[u].path.identifier
                          /\ log[k - 1].status = 200
        /\ UploadedOk(u) => up[u].result.created = ~Exists(u)
        /\ UploadedOk(u) => up[u].result.created = up[u].created

\* an upload onto an existing file has sent its chunks after an UPDATE
C17_Witness ==
    \E u \in DOMAIN up :
        /\ UploadedOk(u)
        /\ Exists(u)
        /\ up[u].stream.size > 0
        /\ \E k \in FilesAt(u) : log[k].method = "PUT"

(* C13: the chunk writes of an upload go out one after the other, by       *)
(* increasing offset: none before the create-or-update request of that     *)
(* upload was answered with success, each later one only after the one     *)
(* before it was answered with success, and a chunk write that fails is    *)
(* the last request of the upload, which ends in UploadError.              *)
C13_ChunksInOrder ==
    \A u \in DOMAIN up :
        LET ch == Sent(u, "chunk")
            rq == Sent(u, "files")
        IN  /\ ch # <<>> => (Len(rq) = 1 /\ Success(rq[1].status))
            /\ \A i, j \in 1..Len(log) :
                  (log[i].by = u /\ log[j].by = u
                      /\ log[i].what = "chunk" /\ log[j].what # "chunk") => j < i
            /\ \A k \in 2..Len(ch) :
                  /\ Success(ch[k - 1].status)
                  /\ ch[k].position > ch[k - 1].position
                  /\ ch[k].position = ch[k - 1].end_1 + 1
            /\ \A k \in 1..Len(ch) :
                  ~Success(ch[k].status) =>
                      /\ k = Len(ch)
                      /\ up[u].pc = "up_done"
                      /\ up[u].result = Raise("UploadError")
            /\ (up[u].pc = "up_chunk" /\ ch # <<>>) => Success(ch[Len(ch)].status)

\* the second chunk write of an upload of more than two chunks failed
C13_Witness ==
    \E u \in DOMAIN up :
        /\ Len(Sent(u, "chunk")) = 2
        /\ Sent(u, "chunk")[2].status = 500
        /\ up[u].stream.size > 2 * up[u].CHUNK_SIZE
        /\ up[u].result = Raise("UploadError")

\* Two uploads to the same path, called by two requests the framework
\* serves at the same time; each takes its steps between those of the other.
InitUploadTwo ==
    /\ tree \in Trees
    /\ log = <<>>
    /\ pc = "idle"
    /\ result = NoResult
    /\ rv = <<>>
    /\ results = <<>>
    /\ \E path \in FilePaths(tree) :
       \E s1, s2 \in {st \in Streams : st.left = st.size /\ st.size <= 1} :
          up = <<UploadCall(s1, 1, path), UploadCall(s2, 1, path)>>
    /\ dl = <<>>
    /\ mv = <<>>
    /\ fm = <<>>
    /\ cf = <<>>
    /\ rs = <<>>
    /\ rp = <<>>

SpecUploadTwo == InitUploadTwo /\ [][NextUpload]_vars

\* the path has no entity, and both uploads had decided on created before
\* either sent its create-or-update request
BothCheckedFirst ==
    /\ Len(up) = 2
    /\ ~Exists(1)
    /\ \A u \in DOMAIN up : up[u].decided # None
    /\ \A u \in DOMAIN up : \A k \in FilesAt(1) \cup FilesAt(2) : up[u].decided < k

(* C20: of two uploads to the same path that has no entity, interleaved so *)
(* that both have made their existence check before either sends its       *)
(* create-or-update request, both set created = true and both send POST    *)
(* files with event type CREATE for the same parent and name; when both    *)
(* requests succeed the parent holds two files of that name, while         *)
(* can_duplicate_names() answers false.                                    *)
C20_BothCreate ==
    BothCheckedFirst =>
        /\ \A u \in DOMAIN up : up[u].created
        /\ \A k \in FilesAt(1) \cup FilesAt(2) :
              /\ log[k].method = "POST"
              /\ log[k].body.ClientJournalEventType = "CREATE"
              /\ log[k].body.ParrentId = up[1].path.parent
              /\ log[k].body.PublicName = up[1].path.name
        /\ \A u \in DOMAIN up : UploadedOk(u) => up[u].result.created
        /\ (\A u \in DOMAIN up :
                \E k \in FilesAt(u) : log[k].status \in upload_request_expects)
              => /\ Cardinality(Named(tree, up[1].path.parent, up[1].path.name)) >= 2
                 /\ ~can_duplicate_names

\* both uploads have succeeded as creations and the folder holds two files
\* of the same name
C20_Witness ==
    /\ BothCheckedFirst
    /\ \A u \in DOMAIN up : UploadedOk(u) /\ up[u].result.created
    /\ Cardinality({e \in tree : /\ e.parent = up[1].path.parent
                                  /\ e.name = up[1].path.name
                                  /\ e.id \in NewIds}) = 2

----------------------------------------------------------------------------
(* delete, _delete_folder, _delete_virtual_file, _folder_metadata *)

\* the root path: no parent, the share's identifier
RootPath == WBPath("", None, RootId, TRUE)
is_root(path) == path.parent = None

\* path.child(name, _id=..., folder=...)
child(path, name, id, folder) == WBPath(name, path.identifier, id, folder)

\* DELETE files/{id}: 200 and the entity is gone; 400 or 404 for an
\* identifier the remote does not know; 500 when the service fails
DeleteStatuses(t, i) == (IF Known(t, i) THEN {200} ELSE {400, 404}) \cup {500}

\* the share once the entity is deleted
Removed(t, i) == {e \in t : e.id # i}

\* _folder_metadata: the listing as child paths, in the listing's order
folder_items(path, res) ==
    [k \in 1..Len(res) |->
        child(path, res[k].PublicName, res[k].InternalName, ~res[k].IsFile)]

\* as a bug: every item is deleted as if it were a file
item_is_file_always(item) == TRUE

\* _delete_folder: if item.is_file
item_is_file(item) == ~item.is_folder

\* A frame of _delete_folder: the folder, the items still to visit, whether
\* the listing was fetched.  _delete_virtual_file on a path alone is a frame
\* with nothing to visit.
Frame(path, items, listed) == [path |-> path, items |-> items, listed |-> listed]

Top(stack) == stack[Len(stack)]
Pop(stack) == SubSeq(stack, 1, Len(stack) - 1)
SetTop(stack, f) == Append(Pop(stack), f)

\* _delete_folder up to its next request: a folder item starts a nested
\* _delete_folder, whose first request is its listing
Descend(stack) ==
    IF stack # <<>> /\ Top(stack).listed /\ Top(stack).items # <<>>
       /\ ~item_is_file(Head(Top(stack).items))
    THEN Append(SetTop(stack, [Top(stack) EXCEPT !.items = Tail(@)]),
                Frame(Head(Top(stack).items), <<>>, FALSE))
    ELSE stack

\* as a bug: a 400 answer is a delete error
delete_outcome_404(status) ==
    IF status = 404 THEN Raise("NotFoundError")
    ELSE IF status = 200 THEN Returned
    ELSE Raise("DeleteError")

\* _delete_virtual_file: what the answer makes of the call
delete_outcome(status) ==
    IF status = 400 \/ status = 404 THEN Raise("NotFoundError")
    ELSE IF status \in {200, 400, 404} THEN Returned
    ELSE Raise("DeleteError")

\* as a bug: a failure below does not end the delete, it goes on with what
\* is left
AfterDelete_goes_on(stack, out) ==
    IF out # Returned /\ stack = <<>> THEN [pc |-> "done", result |-> out]
    ELSE IF stack # <<>> THEN [pc |-> "dl_run", result |-> NoResult]
    ELSE IF dl.ret = "done" THEN [pc |-> "done", result |-> Returned]
    ELSE [pc |-> dl.ret, result |-> NoResult]

\* where the operation goes once delete is over: on to the caller's next
\* step, or to the end with what delete raised
AfterDelete(stack, out) ==
    IF out # Returned THEN [pc |-> "done", result |-> out]
    ELSE IF stack # <<>> THEN [pc |-> "dl_run", result |-> NoResult]
    ELSE IF dl.ret = "done" THEN [pc |-> "done", result |-> Returned]
    ELSE [pc |-> dl.ret, result |-> NoResult]

\* as a bug: a folder the remote does not know is listed as empty
folder_metadata_outcome_empty(status) ==
    IF status \in {200, 404} THEN Returned
    ELSE Raise("MetadataError")

\* _folder_metadata: what the answer to the listing makes of the call
folder_metadata_outcome(status) ==
    IF status = 404 THEN Raise("NotFoundError")
    ELSE IF status \in {200, 404} THEN Returned
    ELSE Raise("MetadataError")

\* delete(path): the checks, then _delete_folder or _delete_virtual_file
delete_enter(path) ==
    IF path.identifier = None THEN [pc |-> "done", result |-> Raise("NotFoundError"),
                                    stack |-> <<>>]
    ELSE IF is_root(path) THEN [pc |-> "done", result |-> Raise("DeleteError"),
                                stack |-> <<>>]
    ELSE IF path.is_folder
    THEN [pc |-> "dl_run", result |-> NoResult, stack |-> <<Frame(path, <<>>, FALSE)>>]
    ELSE [pc |-> "dl_run", result |-> NoResult, stack |-> <<Frame(path, <<>>, TRUE)>>]

delete_call ==
    /\ pc = "idle"
    /\ dl.ret = "done"
    /\ LET go == delete_enter(dl.path)
       IN  /\ pc' = go.pc
           /\ result' = go.result
           /\ dl' = [dl EXCEPT !.stack = go.stack]
    /\ UNCHANGED <<tree, log, rv, results, up, mv, fm, cf, rs, rp>>

\* _delete_folder: for item in await self._folder_metadata(path)
delete_folder_list ==
    /\ pc = "dl_run"
    /\ ~Top(dl.stack).listed
    /\ LET f == Top(dl.stack)
       IN  \E status \in ChildrenStatuses(tree, f.path.identifier) :
            LET res == Children(tree, f.path.identifier)
                out == folder_metadata_outcome(status)
                stack == Descend(SetTop(dl.stack,
                                        Frame(f.path, folder_items(f.path, res), TRUE)))
            IN  /\ log' = Append(log, [method |-> "GET", what |-> "children",
                                       id |-> f.path.identifier, status |-> status])
                /\ pc' = AfterDelete(stack, out).pc
                /\ result' = AfterDelete(stack, out).result
                /\ dl' = IF out = Returned THEN [dl EXCEPT !.stack = stack] ELSE dl
    /\ UNCHANGED <<tree, rv, results, up, mv, fm, cf, rs, rp>>

\* _delete_virtual_file, of the next file item or, the items done, of the
\* folder itself
delete_virtual_file ==
    /\ pc = "dl_run"
    /\ Top(dl.stack).listed
    /\ LET f    == Top(dl.stack)
           path == IF f.items # <<>> THEN Head(f.items) ELSE f.path
       IN  \E status \in DeleteStatuses(tree, path.identifier) :
            LET out   == delete_outcome(status)
                stack == Descend(IF f.items # <<>>
                                 THEN SetTop(dl.stack, [f EXCEPT !.items = Tail(@)])
                                 ELSE Pop(dl.stack))
            IN  /\ log' = Append(log, [method |-> "DELETE", what |-> "files",
                                       id |-> path.identifier, status |-> status])
                /\ tree' = IF status = 200 THEN Removed(tree, path.identifier) ELSE tree
                /\ pc' = AfterDelete(stack, out).pc
                /\ result' = AfterDelete(stack, out).result
                /\ dl' = IF out = Returned THEN [dl EXCEPT !.stack = stack] ELSE dl
    /\ UNCHANGED <<rv, results, up, mv, fm, cf, rs, rp>>

\* the paths delete can be handed: an entity's, the root's, a path without
\* identifier, the path of an entity the remote has dropped since
DeletePaths(t) ==
    {PathOf(e) : e \in t}
    \cup {RootPath}
    \cup {WBPath("b", RootId, None, f) : f \in BOOLEAN}
    \cup {WBPath("a", RootId, StaleId, f) : f \in BOOLEAN}

DeleteCall(path, ret, t) == [path |-> path, stack |-> <<>>, ret |-> ret, before |-> t]

InitDelete ==
    /\ tree \in BigTrees
    /\ log = <<>>
    /\ pc = "idle"
    /\ result = NoResult
    /\ rv = <<>>
    /\ results = <<>>
    /\ up = <<>>
    /\ \E path \in DeletePaths(tree) : dl = DeleteCall(path, "done", tree)
    /\ mv = <<>>
    /\ fm = <<>>
    /\ cf = <<>>
    /\ rs = <<>>
    /\ rp = <<>>

NextDelete ==
    \/ delete_call
    \/ delete_folder_list
    \/ delete_virtual_file

SpecDelete == InitDelete /\ [][NextDelete]_vars

\* the entities below i in tree t
RECURSIVE Below(_, _, _)
Below(t, i, depth) ==
    IF depth = 0 THEN {}
    ELSE LET kids == {e.id : e \in {x \in t : x.parent = i}}
         IN  kids \cup UNION {Below(t, k, depth - 1) : k \in kids}

Descendants(t, i) == Below(t, i, Cardinality(t))

Deletes == SelectSeq(log, LAMBDA r : r.method = "DELETE")
DeletedIds == [k \in 1..Len(Deletes) |-> Deletes[k].id]
NoFailure == \A k \in 1..Len(log) : log[k].status = 200

DeleteDone == pc = "done" /\ dl.ret = "done"
FolderEmptied ==
    /\ DeleteDone
    /\ result = Returned
    /\ dl.path.is_folder

\* a and what is below it went before b, listed after it in the same folder
ListedBefore(a, b) ==
    /\ a.parent = b.parent
    /\ a.id < b.id
    /\ \A k, m \in 1..Len(DeletedIds) :
          (DeletedIds[k] = b.id /\ DeletedIds[m] \in {a.id} \cup Descendants(dl.before, a.id))
              => m < k

(* C5: a recursive folder delete sends its delete requests bottom-up.  As  *)
(* long as no request fails, no entity is deleted after one of its         *)
(* ancestors and none is deleted twice; when the delete of a folder has    *)
(* returned, the entities deleted are the folder and everything below it,  *)
(* the folder itself last, and the children of each folder went in the     *)
(* order of its listing: a folder holding one file and one empty folder,   *)
(* the file listed first, goes as delete(file), delete(nested folder),     *)
(* delete(outer folder).                                                   *)
C5_BottomUp ==
    (dl.ret = "done" /\ NoFailure) =>
        /\ \A k, m \in 1..Len(DeletedIds) :
              k < m => /\ DeletedIds[m] \notin Descendants(dl.before, DeletedIds[k])
                       /\ DeletedIds[m] # DeletedIds[k]
        /\ FolderEmptied =>
              /\ {DeletedIds[k] : k \in 1..Len(DeletedIds)}
                    = {dl.path.identifier} \cup Descendants(dl.before, dl.path.identifier)
              /\ DeletedIds[Len(DeletedIds)] = dl.path.identifier
              /\ tree = {e \in dl.before : e.id \notin
                            {dl.path.identifier} \cup Descendants(dl.before, dl.path.identifier)}
              /\ \A a, b \in dl.before :
                    (/\ a.parent = b.parent
                     /\ a.id < b.id
                     /\ b.id \in Descendants(dl.before, dl.path.identifier))
                        => ListedBefore(a, b)
              /\ \A f, g \in dl.before :
                    (/\ f.isFile /\ ~g.isFile /\ f.id < g.id
                     /\ f.parent = dl.path.identifier /\ g.parent = dl.path.identifier
                     /\ Descendants(dl.before, dl.path.identifier) = {f.id, g.id})
                        => DeletedIds = <<f.id, g.id, dl.path.identifier>>

\* a folder holding a folder that holds an entity has been deleted
C5_Witness ==
    /\ FolderEmptied
    /\ Len(DeletedIds) = 3
    /\ \E e \in dl.before :
          /\ e.parent # dl.path.identifier
          /\ e.id \in Descendants(dl.before, dl.path.identifier)

\* the folder holds exactly one file and one empty folder
OneFileOneFolder(t, i) ==
    \E f, g \in t :
        /\ f.isFile /\ ~g.isFile
        /\ f.parent = i /\ g.parent = i
        /\ Descendants(t, i) = {f.id, g.id}

\* C5 as first stated: such a folder is always deleted file first, then
\* the nested folder, then the folder itself
C5_FileFirst ==
    (FolderEmptied /\ NoFailure /\ OneFileOneFolder(dl.before, dl.path.identifier)) =>
        \E f, g \in dl.before :
            /\ f.isFile /\ ~g.isFile
            /\ DeletedIds = <<f.id, g.id, dl.path.identifier>>

(* C6: a DELETE answered 400 or 404 ends the operation with NotFoundError, *)
(* never with DeleteError; delete of a path without identifier raises      *)
(* NotFoundError and sends nothing.                                        *)
C6_AbsentIsNotFound ==
    dl.ret = "done" =>
        /\ \A k \in 1..Len(log) :
              (log[k].method = "DELETE" /\ log[k].status \in {400, 404}) =>
                  /\ k = Len(log)
                  /\ pc = "done"
                  /\ result = Raise("NotFoundError")
        /\ (dl.path.identifier = None /\ pc # "idle") =>
              /\ pc = "done"
              /\ result = Raise("NotFoundError")
              /\ log = <<>>

\* the DELETE of a file the remote has dropped was answered 400
C6_Witness ==
    /\ DeleteDone
    /\ dl.path.identifier = StaleId
    /\ log # <<>>
    /\ log[Len(log)].method = "DELETE"
    /\ log[Len(log)].status = 400
    /\ result = Raise("NotFoundError")

\* the requests that were not answered as the code needs to go on
Failed(r) == r.status # (IF r.what = "clone" THEN 201 ELSE 200)
Failures == {k \in 1..Len(log) : Failed(log[k])}

\* the error a failed request of delete raises
RaisedBy(r) ==
    IF r.what = "children"
    THEN (IF r.status = 404 THEN Raise("NotFoundError") ELSE Raise("MetadataError"))
    ELSE (IF r.status \in {400, 404} THEN Raise("NotFoundError") ELSE Raise("DeleteError"))

\* the entities whose DELETE was answered 200
Gone == {log[k].id : k \in {j \in 1..Len(log) :
                                log[j].method = "DELETE" /\ log[j].status = 200}}

(* C12: in a recursive delete the first listing or DELETE that fails is    *)
(* the last request sent: the delete is over at once with the one error    *)
(* that request raises, what was deleted before stays deleted and nothing  *)
(* else is, and neither the entity the failed request was about nor any of *)
(* its ancestors, the target folder included, is deleted.                  *)
C12_StopsAtFirstFailure ==
    dl.ret = "done" =>
        /\ tree = {e \in dl.before : e.id \notin Gone}
        /\ \A k \in Failures :
              /\ k = Len(log)
              /\ pc = "done"
              /\ result = RaisedBy(log[k])
              /\ log[k].id \notin Gone
              /\ \A a \in dl.before :
                    log[k].id \in Descendants(dl.before, a.id) => a \in tree
              /\ Known(dl.before, dl.path.identifier) =>
                    Known(tree, dl.path.identifier)
        /\ (pc = "done" /\ result # Returned /\ log # <<>>) => Failures = {Len(log)}

\* the delete of a nested folder failed once what it held had been deleted
C12_Witness ==
    /\ DeleteDone
    /\ result = Raise("DeleteError")
    /\ Failures = {Len(log)}
    /\ \E e \in dl.before :
          /\ e.id = log[Len(log)].id
          /\ e.parent = dl.path.identifier
          /\ Gone # {}
          /\ Gone \subseteq Descendants(dl.before, e.id)

----------------------------------------------------------------------------
(* delete while other clients change the share.  The provider holds no     *)
(* lock: between two of its requests another client's request can reach    *)
(* the remote.  The journal `log` then holds the other clients' requests   *)
(* too, marked what = "other".                                             *)

\* the requests this delete sent
Mine(r) == r.what # "other"
Others == {k \in 1..Len(log) : ~Mine(log[k])}

\* the entities the running delete has listed and not yet deleted: the
\* items still to visit and the nested folders it is in
Pending(stack) ==
    UNION {{stack[m].items[k].identifier : k \in 1..Len(stack[m].items)} :
              m \in 1..Len(stack)}
    \cup {stack[k].path.identifier : k \in 2..Len(stack)}

\* the folders whose listing the running delete holds
ListedFolders(stack) ==
    {stack[k].path.identifier : k \in {m \in 1..Len(stack) : stack[m].listed}}

\* the identifiers other clients' entities were given so far
GivenIds == {log[k].id : k \in {j \in Others : log[j].method = "PUT"}}

\* no two entities of a folder bear the same name
NamesDiffer(t) == \A a, b \in t : (a.parent = b.parent /\ a.name = b.name) => a = b

\* Another client deletes an entity the delete has listed and not yet
\* deleted, a file or an empty folder.  (What another client deletes before
\* it is listed was never seen by the delete: that is a delete on a smaller
\* share.)
other_removes ==
    /\ pc = "dl_run"
    /\ Cardinality(Others) < MaxOthers
    /\ \E e \in tree :
          /\ e.id \in Pending(dl.stack)
          /\ Descendants(tree, e.id) = {}
          /\ tree' = Removed(tree, e.id)
          /\ log' = Append(log, [method |-> "DELETE", what |-> "other", id |-> e.id,
                                 parent |-> e.parent, status |-> 200])
    /\ UNCHANGED <<pc, result, rv, results, up, dl, mv, fm, cf, rs, rp>>

\* the names no entity of folder p bears
FreeNames(t, p) == {n \in Names : \A e \in t : e.parent = p => e.name # n}

\* Another client creates a file or a folder in a folder the delete has
\* listed and is still working on, under a name free there (which one is
\* of no matter to delete, which goes by identifiers).  (What is created in
\* a folder before its listing is listed with the rest: that is a delete on
\* a bigger share.)
other_adds ==
    /\ pc = "dl_run"
    /\ Cardinality(Others) < MaxOthers
    /\ \E i \in NewIds, f \in BOOLEAN, p \in ListedFolders(dl.stack) :
          /\ Known(tree, p)
          /\ FreeNames(tree, p) # {}
          /\ i \notin GivenIds
          /\ \A j \in NewIds : j < i => j \in GivenIds
          /\ tree' = tree \cup {Entity(i, CHOOSE n \in FreeNames(tree, p) : TRUE, p, f)}
          /\ log' = Append(log, [method |-> "PUT", what |-> "other", id |-> i,
                                 parent |-> p, status |-> 200])
    /\ UNCHANGED <<pc, result, rv, results, up, dl, mv, fm, cf, rs, rp>>

\* the delete of a folder of the share; the share holds nothing besides the
\* folder and what is in it
InitDeleteOthers ==
    /\ InitDelete
    /\ dl.path.is_folder
    /\ Known(tree, dl.path.identifier)
    /\ ~is_root(dl.path)
    /\ NamesDiffer(tree)
    /\ {e.id : e \in tree}
          = {dl.path.identifier} \cup Descendants(tree, dl.path.identifier)

NextDeleteOthers ==
    \/ delete_call
    \/ delete_folder_list
    \/ delete_virtual_file
    \/ other_removes
    \/ other_adds

SpecDeleteOthers == InitDeleteOthers /\ [][NextDeleteOthers]_vars

\* the entities this delete's DELETE requests removed, and those other
\* clients removed or created
RunGone == {log[k].id : k \in {j \in 1..Len(log) :
               Mine(log[j]) /\ log[j].method = "DELETE" /\ log[j].status = 200}}
OthersGone == {log[k].id : k \in {j \in Others : log[j].method = "DELETE"}}
OthersAdded == {log[k].id : k \in {j \in Others : log[j].method = "PUT"}}

\* request k of the delete is about an entity another client removed
\* after the delete had listed it
AboutRemoved(k) ==
    /\ Mine(log[k])
    /\ \E j \in Others :
          /\ j < k
          /\ log[j].method = "DELETE"
          /\ log[j].id = log[k].id

\* the folder that held the entity request k is about
HeldBy(k) ==
    log[CHOOSE j \in Others : log[j].method = "DELETE" /\ log[j].id = log[k].id
                              /\ j < k].parent

\* the listing of folder p was fetched before request j
ListingFetched(p, j) ==
    \E i \in 1..(j - 1) :
        /\ Mine(log[i])
        /\ log[i].what = "children"
        /\ log[i].id = p
        /\ log[i].status = 200

\* the request about a removed entity is refused and ends the delete; the
\* folder that held the entity is not deleted, and neither is what another
\* client put in a folder already listed
RemovedEndsDelete(methods) ==
    /\ \A k \in 1..Len(log) :
          AboutRemoved(k) =>
              /\ log[k].method \in methods
              /\ log[k].status \in {400, 404, 500}
              /\ k = Len(log)
              /\ pc = "done"
              /\ log[k].status \in {400, 404} => result = Raise("NotFoundError")
              /\ HeldBy(k) \notin RunGone
              /\ Known(dl.before, dl.path.identifier) /\ dl.path.identifier \notin RunGone
    /\ \A j \in Others :
          (log[j].method = "PUT" /\ ListingFetched(log[j].parent, j)) =>
              \A k \in 1..Len(log) : Mine(log[k]) => log[k].id # log[j].id
    /\ {e.id : e \in tree} = ({e.id : e \in dl.before} \cup OthersAdded)
                                \ (RunGone \cup OthersGone)

(* C21: when another client removes an entity that a running recursive     *)
(* delete has listed and not yet deleted, the request the delete then      *)
(* sends about it (the DELETE of a file or of a folder already listed,     *)
(* the listing of a folder not yet listed) is refused: the DELETE with     *)
(* 400 or 404, the listing with 404, unless the service fails.  It is the  *)
(* last request of the delete, which ends with NotFoundError; the folder   *)
(* that held the entity and the target are not deleted, and nothing of     *)
(* what is left is.  An entity another client creates in a folder whose    *)
(* listing was already fetched is never named by a request of the delete.  *)
C21_RemovedChildEnds == RemovedEndsDelete({"DELETE", "GET"})

\* the DELETE of a file another client had removed was refused while its
\* sibling and a file created meanwhile in the same folder are still there
C21_Witness ==
    /\ DeleteDone
    /\ result = Raise("NotFoundError")
    /\ AboutRemoved(Len(log))
    /\ log[Len(log)].method = "DELETE"
    /\ log[Len(log)].status \in {400, 404}
    /\ HeldBy(Len(log)) = dl.path.identifier
    /\ Known(tree, dl.path.identifier)
    /\ \E s \in tree \cap dl.before : s.parent = dl.path.identifier
    /\ \E a \in tree : a.id \in OthersAdded /\ a.parent = dl.path.identifier

\* C21 as first stated: the request about the removed child is always a
\* DELETE
C21_DeleteRefused == RemovedEndsDelete({"DELETE"})

----------------------------------------------------------------------------
(* revalidate_path *)

\* the folder argument: True, False, or None when the caller leaves it out
FolderArgs == {"True", "False", "None"}

\* res['Data'][index]['IsFile'] == folder, in Python: None equals neither
IsFileEq(isFile, folder) ==
    folder # "None" /\ (isFile <=> folder = "True")

\* base.child(name, _id=child_id, folder=folder)
ChildPath(base, name, id, folder) ==
    [kind |-> "path", name |-> name, parent |-> base.identifier,
     identifier |-> id, folder |-> folder]

\* as a bug: a match of the other kind is returned all the same
rp_after_listing_anykind(base, name, folder, res) ==
    ChildPath(base, name, _search_inter_id(res, name)[1], folder)

\* revalidate_path once the listing answered 200
rp_after_listing(base, name, folder, res) ==
    LET found == _search_inter_id(res, name)
    IN  IF found[1] # None /\ IsFileEq(res[found[2]].IsFile, folder)
        THEN Raise("NotFoundError")
        ELSE ChildPath(base, name, found[1], folder)

revalidate_path_call ==
    /\ pc = "idle"
    /\ pc' = "rp_request"
    /\ UNCHANGED <<tree, log, result, rv, results, up, dl, mv, fm, cf, rs, rp>>

\* revalidate_path: the children request of the base and what is made of
\* its answer
revalidate_path_request ==
    /\ pc = "rp_request"
    /\ \E status \in ChildrenStatuses(tree, rp.base.identifier) :
        LET res == Children(tree, rp.base.identifier)
        IN  /\ log' = Append(log, [method |-> "GET", what |-> "children",
                                   id |-> rp.base.identifier, status |-> status])
            /\ pc' = "done"
            /\ result' = IF status = 404 THEN Raise("NotFoundError")
                         ELSE IF status # 200 THEN Raise("MetadataError")
                         ELSE rp_after_listing(rp.base, rp.name, rp.folder, res)
    /\ UNCHANGED <<tree, rv, results, up, dl, mv, fm, cf, rs, rp>>

\* the bases revalidate_path is handed: the root, an entity's path, the path
\* of a folder the remote has dropped
BasePaths(t) ==
    {RootPath} \cup {PathOf(e) : e \in t} \cup {WBPath("a", RootId, StaleId, TRUE)}

InitRevalidate ==
    /\ tree \in BigTrees
    /\ log = <<>>
    /\ pc = "idle"
    /\ result = NoResult
    /\ rv = <<>>
    /\ results = <<>>
    /\ up = <<>>
    /\ dl = <<>>
    /\ mv = <<>>
    /\ fm = <<>>
    /\ cf = <<>>
    /\ rs = <<>>
    /\ \E base \in BasePaths(tree), name \in Names, folder \in FolderArgs :
          rp = [base |-> base, name |-> name, folder |-> folder]

NextRevalidate ==
    \/ revalidate_path_call
    \/ revalidate_path_request

SpecRevalidate == InitRevalidate /\ [][NextRevalidate]_vars

\* the last iteration of a validate_path walk that has reached the base and
\* looks for the name, the path string ending in a slash or not
LastStep(base, name, is_folder) ==
    [path |-> [segs |-> <<name>>, is_folder |-> is_folder], v1 |-> FALSE,
     is_folder |-> is_folder, children_path_list |-> <<name>>,
     inter_id_list |-> <<base.identifier>>, current_inter_id |-> base.identifier,
     i |-> 0]

\* the two outcomes say the same: the same error, or a path of the same
\* name and kind whose last identifier is the same, None included
SameOutcome(child_out, walk_out, folder) ==
    IF walk_out.kind = "path"
    THEN /\ child_out.kind = "path"
         /\ child_out.identifier = identifier(walk_out)
         /\ child_out.name = walk_out.names[Len(walk_out.names)]
         /\ (child_out.folder = "True") = walk_out.folder
         /\ child_out.folder = folder
    ELSE child_out = walk_out

RevalidateDone == rp # <<>> /\ pc = "done"

----------------------------------------------------------------------------
(* intra_move, intra_copy *)

\* PUT files/{id} with a MOVE envelope: 200 and the entity has its new parent
\* and name; 404 for an unknown identifier; 500 when the service fails
MoveStatuses(t, i) == (IF Known(t, i) THEN {200} ELSE {404}) \cup {500}

Moved(t, i, parent, name) ==
    {IF e.id = i THEN [e EXCEPT !.parent = parent, !.name = name] ELSE e : e \in t}

\* POST files/{id}/clone: 201 and a new file under the destination parent;
\* 404 for an unknown identifier; 500 when the service fails
CloneStatuses(t, i) == (IF Known(t, i) THEN {201} ELSE {404}) \cup {500}

\* the entity record of a response: RfVirtualFile
RfVirtualFile(id, name) == [InternalName |-> id, PublicName |-> name]

intra_move_expects == {200}
\* as a bug: 404 is accepted, as the metadata requests accept it
intra_copy_expects_404 == {201, 404}
intra_copy_expects == {201}

\* as a bug: the envelope names the destination's identifier
move_request_body_dest(src_path, dest_path) ==
    [InternalName |-> dest_path.identifier,
     ParrentId |-> dest_path.parent,
     PublicName |-> dest_path.name,
     ClientJournalEventType |-> "MOVE"]

\* intra_move: the envelope
move_request_body(src_path, dest_path) ==
    [InternalName |-> src_path.identifier,
     ParrentId |-> dest_path.parent,
     PublicName |-> dest_path.name,
     ClientJournalEventType |-> "MOVE"]

\* as a bug: the flag is read once the path has taken the identifier of the
\* answer
move_created_late(dest_path) == FALSE

\* intra_move: created = dest_path.identifier is None
move_created(dest_path) == dest_path.identifier = None

\* as a bug: the path takes the source's identifier before the request is
\* answered
path_after_move_early(dest_path, ok, data) ==
    [dest_path EXCEPT !.identifier = data.InternalName, !.name = data.PublicName]

\* intra_move: dest_path.parts[-1]._id = data['InternalName'] and
\* dest_path.rename(data['PublicName']), reached when the request succeeded
path_after_move(dest_path, ok, data) ==
    IF ok
    THEN [dest_path EXCEPT !.identifier = data.InternalName, !.name = data.PublicName]
    ELSE dest_path

\* WaterButlerPath.__eq__: the same path string
PathEq(a, b) == a.name = b.name /\ a.parent = b.parent /\ a.is_folder = b.is_folder

\* as a bug: the clone is moved whatever its name
clone_is_dest_never(clone_result_path, dest_path) == FALSE

\* intra_copy: if clone_result_path == dest_path
clone_is_dest(clone_result_path, dest_path) == PathEq(clone_result_path, dest_path)

\* the destination intra_move works on: the caller's path, or the one
\* intra_copy built after deleting the old destination
MoveDest == IF mv.rebound THEN mv.new_dest ELSE mv.dest_path

MovedResult(data, created) ==
    [kind |-> "moved", InternalName |-> data.InternalName,
     PublicName |-> data.PublicName, created |-> created]
CopiedResult(data) ==
    [kind |-> "copied", InternalName |-> data.InternalName,
     PublicName |-> data.PublicName, created |-> TRUE]

\* intra_move is called: an existing destination is deleted first
intra_move_call ==
    /\ pc = "idle"
    /\ mv.op = "move"
    /\ LET go == IF mv.dest_path.identifier # None
                 THEN delete_enter(mv.dest_path)
                 ELSE [pc |-> "mv_metadata", result |-> NoResult, stack |-> <<>>]
       IN  /\ pc' = go.pc
           /\ result' = go.result
           /\ dl' = [dl EXCEPT !.path = mv.dest_path, !.stack = go.stack,
                               !.ret = "mv_metadata"]
    /\ mv' = [mv EXCEPT !.moves = @ + 1, !.m_src = mv.src_path, !.m_dest = mv.dest_path]
    /\ UNCHANGED <<tree, log, rv, results, up, fm, cf, rs, rp>>

\* intra_move: src_metadata = await self._file_metadata(src_path, raw=True)
move_metadata ==
    /\ pc = "mv_metadata"
    /\ \E status \in MetadataStatuses(tree, mv.m_src.identifier) :
        /\ log' = Append(log, [method |-> "GET", what |-> "metadata",
                               id |-> mv.m_src.identifier, status |-> status])
        /\ pc' = IF status = 200 THEN "mv_request" ELSE "done"
        /\ result' = IF status = 200 THEN NoResult
                     ELSE IF status = 404 THEN Raise("NotFoundError")
                     ELSE Raise("MetadataError")
    /\ UNCHANGED <<tree, rv, results, up, dl, mv, fm, cf, rs, rp>>

\* intra_move: the MOVE request, then the destination path takes the
\* identifier and name of the answer
move_request ==
    /\ pc = "mv_request"
    /\ LET src  == mv.m_src
           dest == MoveDest
           body == move_request_body(src, dest)
       IN  \E status \in MoveStatuses(tree, src.identifier) :
            LET ok      == status \in intra_move_expects
                data    == RfVirtualFile(src.identifier, body.PublicName)
                created == move_created(dest)
                renamed == path_after_move(dest, ok, data)
            IN  /\ log' = Append(log, [method |-> "PUT", what |-> "move",
                                       id |-> src.identifier, status |-> status,
                                       body |-> body])
                /\ tree' = IF ok THEN Moved(tree, src.identifier, body.ParrentId,
                                            body.PublicName)
                           ELSE tree
                /\ mv' = IF mv.rebound
                         THEN [mv EXCEPT !.new_dest = renamed,
                                         !.created = IF ok THEN created ELSE @,
                                         !.data = IF ok THEN data ELSE @]
                         ELSE [mv EXCEPT !.dest_path = renamed,
                                         !.created = IF ok THEN created ELSE @,
                                         !.data = IF ok THEN data ELSE @]
                /\ pc' = IF ok /\ dest.is_folder THEN "mv_children" ELSE "done"
                /\ result' = IF ~ok THEN make_request(status, intra_move_expects,
                                                      "IntraMoveError")
                             ELSE IF dest.is_folder THEN NoResult
                             ELSE MovedResult(data, created)
    /\ UNCHANGED <<rv, results, up, dl, fm, cf, rs, rp>>

\* intra_move, a folder: metadata.children = await self._folder_metadata(dest_path)
move_children ==
    /\ pc = "mv_children"
    /\ \E status \in ChildrenStatuses(tree, MoveDest.identifier) :
        /\ log' = Append(log, [method |-> "GET", what |-> "children",
                               id |-> MoveDest.identifier, status |-> status])
        /\ pc' = "done"
        /\ result' = IF status = 404 THEN Raise("NotFoundError")
                     ELSE IF status # 200 THEN Raise("MetadataError")
                     ELSE MovedResult(mv.data, mv.created)
    /\ UNCHANGED <<tree, rv, results, up, dl, mv, fm, cf, rs, rp>>

\* intra_copy is called: an existing destination is deleted first
intra_copy_call ==
    /\ pc = "idle"
    /\ mv.op = "copy"
    /\ LET go == IF mv.dest_path.identifier # None
                 THEN delete_enter(mv.dest_path)
                 ELSE [pc |-> "cp_clone", result |-> NoResult, stack |-> <<>>]
       IN  /\ pc' = go.pc
           /\ result' = go.result
           /\ dl' = [dl EXCEPT !.path = mv.dest_path, !.stack = go.stack,
                               !.ret = "cp_clone"]
    /\ UNCHANGED <<tree, log, rv, results, up, mv, fm, cf, rs, rp>>

\* intra_copy: the destination rebound after the delete, the clone request,
\* and the return or the call of intra_move
copy_clone ==
    /\ pc = "cp_clone"
    /\ LET rebound == mv.dest_path.identifier # None
           dest    == IF rebound
                      THEN WBPath(mv.dest_path.name, mv.dest_path.parent, None, FALSE)
                      ELSE mv.dest_path
           src     == mv.src_path
       IN  \E status \in CloneStatuses(tree, src.identifier) :
           \E name \in Names :
            LET ok    == status \in intra_copy_expects
                data  == RfVirtualFile(FreshId(tree), name)
                clone_result_path == WBPath(data.PublicName, dest.parent,
                                            data.InternalName, FALSE)
                same  == clone_is_dest(clone_result_path, dest)
            IN  /\ ok \/ name = "a"
                /\ log' = Append(log, [method |-> "POST", what |-> "clone",
                                       id |-> src.identifier, status |-> status,
                                       body |-> [DestinationParentId |-> dest.parent]])
                /\ tree' = IF ok THEN tree \cup {Entity(data.InternalName, name,
                                                        dest.parent, TRUE)}
                           ELSE tree
                /\ mv' = IF ~ok THEN [mv EXCEPT !.rebound = rebound, !.new_dest = dest]
                         ELSE IF same
                         THEN [mv EXCEPT !.rebound = rebound, !.new_dest = dest,
                                         !.clone = clone_result_path]
                         ELSE [mv EXCEPT !.rebound = rebound, !.new_dest = dest,
                                         !.clone = clone_result_path,
                                         !.moves = @ + 1,
                                         !.m_src = clone_result_path,
                                         !.m_dest = dest]
                /\ pc' = IF ok /\ ~same THEN "mv_metadata" ELSE "done"
                /\ result' = IF ~ok THEN make_request(status, intra_copy_expects,
                                                      "IntraCopyError")
                             ELSE IF same THEN CopiedResult(data)
                             ELSE NoResult
    /\ UNCHANGED <<rv, results, up, dl, fm, cf, rs, rp>>

\* the paths a move or copy is handed: the source is an entity's path or the
\* path of one the remote has dropped; the destination is of the source's
\* kind, an entity's path or a path without identifier in an existing folder
SourcePaths(t, op) ==
    {PathOf(e) : e \in {x \in t : op = "move" \/ x.isFile}}
    \cup {WBPath("a", RootId, StaleId, FALSE)}

DestPaths(t, src) ==
    {PathOf(e) : e \in {x \in t : x.isFile = ~src.is_folder}}
    \cup {WBPath(n, p, None, src.is_folder) : n \in Names, p \in FolderIds(t)}

NoPath == WBPath("", None, None, FALSE)

MoveCall(op, src, dest) ==
    [op |-> op, src_path |-> src, dest_path |-> dest, dest_given |-> dest,
     rebound |-> FALSE, new_dest |-> NoPath, m_src |-> NoPath, m_dest |-> NoPath,
     moves |-> 0, clone |-> NoPath, created |-> FALSE,
     data |-> RfVirtualFile(None, "")]

InitMove ==
    /\ tree \in BigTrees
    /\ log = <<>>
    /\ pc = "idle"
    /\ result = NoResult
    /\ rv = <<>>
    /\ results = <<>>
    /\ up = <<>>
    /\ \E op \in {"move", "copy"} :
       \E src \in SourcePaths(tree, op) :
       \E dest \in DestPaths(tree, src) :
          /\ mv = MoveCall(op, src, dest)
          /\ dl = DeleteCall(dest, "caller", tree)
    /\ fm = <<>>
    /\ cf = <<>>
    /\ rs = <<>>
    /\ rp = <<>>

NextMove ==
    \/ intra_move_call
    \/ intra_copy_call
    \/ delete_folder_list
    \/ delete_virtual_file
    \/ move_metadata
    \/ move_request
    \/ move_children
    \/ copy_clone

SpecMove == InitMove /\ [][NextMove]_vars

MoveEntries == {k \in 1..Len(log) : log[k].what = "move"}

(* C3: in intra_move onto a destination that has an identifier, the        *)
(* DELETE of the destination is answered 200 before the source's metadata  *)
(* is fetched and before the MOVE request, and no DELETE follows them; the *)
(* MOVE request goes to the source's identifier and names the source's     *)
(* identifier, the destination parent's identifier and the destination's   *)
(* name; the entity a successful move returns has the source's identifier. *)
C3_DeleteThenMove ==
    mv.moves >= 1 =>
        /\ mv.m_dest.identifier # None =>
              \A k \in 1..Len(log) :
                  log[k].what \in {"metadata", "move"} =>
                      /\ \E j \in 1..(k - 1) :
                            /\ log[j].method = "DELETE"
                            /\ log[j].id = mv.m_dest.identifier
                            /\ log[j].status = 200
                      /\ \A j \in (k + 1)..Len(log) : log[j].method # "DELETE"
        /\ \A k \in MoveEntries :
              /\ log[k].method = "PUT"
              /\ log[k].id = mv.m_src.identifier
              /\ log[k].body.InternalName = mv.m_src.identifier
              /\ log[k].body.ParrentId = mv.m_dest.parent
              /\ log[k].body.PublicName = mv.m_dest.name
              /\ \E j \in 1..(k - 1) :
                    /\ log[j].what = "metadata"
                    /\ log[j].id = mv.m_src.identifier
                    /\ log[j].status = 200
        /\ (pc = "done" /\ result.kind = "moved") =>
              /\ result.InternalName = mv.m_src.identifier
              /\ MoveDest.identifier = mv.m_src.identifier
              /\ Entity(mv.m_src.identifier, mv.m_dest.name, mv.m_dest.parent,
                        ~mv.m_src.is_folder) \in tree

\* a folder has been moved onto an existing folder that was not empty
C3_Witness ==
    /\ mv.op = "move"
    /\ pc = "done"
    /\ result.kind = "moved"
    /\ mv.m_dest.identifier # None
    /\ mv.m_dest.is_folder
    /\ Cardinality({k \in 1..Len(log) : log[k].method = "DELETE"}) >= 2

MoveReturned == mv.moves >= 1 /\ pc = "done" /\ result.kind = "moved"

(* C15: an intra_move that succeeded returns created = true when the       *)
(* destination path it was called with had no identifier, and created =    *)
(* false when that path had one, in which case the entity of that          *)
(* identifier was deleted by the move before anything else was sent.       *)
C15_CreatedFlag ==
    MoveReturned =>
        /\ result.created = (mv.m_dest.identifier = None)
        /\ ~result.created =>
              /\ \E k \in 1..Len(log) :
                    /\ log[k].method = "DELETE"
                    /\ log[k].id = mv.m_dest.identifier
                    /\ log[k].status = 200
                    /\ \A j \in 1..k : log[j].what \in {"children", "files"}
              /\ ~Known(tree, mv.m_dest.identifier)
        /\ result.created => \A k \in 1..Len(log) : mv.op = "move" => log[k].method # "DELETE"

\* a file was moved onto an existing file: created is false
C15_Witness ==
    /\ MoveReturned
    /\ mv.op = "move"
    /\ ~mv.m_dest.is_folder
    /\ mv.m_dest.identifier # None
    /\ ~result.created

\* the destination had an entity and its DELETE was answered 200
DestDeleted ==
    /\ mv.dest_given.identifier # None
    /\ mv.dest_given.identifier \in Gone

\* the operation is over and its last request, a metadata fetch, a MOVE or
\* a clone, has failed
FailedAfterDelete ==
    /\ pc = "done"
    /\ DestDeleted
    /\ log[Len(log)].what \in {"metadata", "move", "clone"}
    /\ Failed(log[Len(log)])

IsError(out) == out.kind \notin {"none", "returned", "moved", "copied"}

\* the source is on the remote as it was when the operation started
SourceIntact ==
    {e \in tree : e.id = mv.src_path.identifier}
        = {e \in dl.before : e.id = mv.src_path.identifier}

\* the source is the destination or lies inside it
SourceInDest ==
    mv.src_path.identifier \in
        {mv.dest_given.identifier} \cup Descendants(dl.before, mv.dest_given.identifier)

(* C19: when intra_move or intra_copy has deleted an existing destination  *)
(* and the metadata fetch, the MOVE request or the clone request that      *)
(* follows fails, the operation ends in an error, the destination entity   *)
(* stays deleted and nothing is put in its place, and the source entity is *)
(* still under its parent with its name and identifier, unless the source  *)
(* was the destination or inside it and so was deleted with it.            *)
C19_NoRollback ==
    FailedAfterDelete =>
        /\ IsError(result)
        /\ ~Known(tree, mv.dest_given.identifier)
        /\ ~SourceInDest => SourceIntact
        /\ SourceInDest => ~Known(tree, mv.src_path.identifier)

\* the MOVE request failed after the destination folder and what it held
\* had been deleted
C19_Witness ==
    /\ FailedAfterDelete
    /\ mv.op = "move"
    /\ log[Len(log)].what = "move"
    /\ result = Raise("IntraMoveError")
    /\ Cardinality(Gone) >= 2
    /\ Known(tree, mv.src_path.identifier)

\* C19 as first stated: the source is always still there
C19_SourceKept ==
    FailedAfterDelete =>
        /\ IsError(result)
        /\ ~Known(tree, mv.dest_given.identifier)
        /\ Known(dl.before, mv.src_path.identifier) =>
              /\ Known(tree, mv.src_path.identifier)
              /\ SourceIntact

CloneLanded == mv.op = "copy" /\ mv.clone # NoPath
CloneAtDest ==
    /\ mv.clone.name = mv.dest_given.name
    /\ mv.clone.parent = mv.dest_given.parent
    /\ ~mv.dest_given.is_folder

(* C4: in intra_copy, once the clone request has succeeded: a clone that   *)
(* landed at the requested destination ends the copy with created = true   *)
(* and no MOVE request; any other clone makes intra_copy call intra_move   *)
(* once, from the clone to the requested destination, and the copy returns *)
(* what that move returns.                                                 *)
C4_CloneThenMove ==
    mv.op = "copy" =>
        /\ ~CloneLanded => (mv.moves = 0 /\ MoveEntries = {})
        /\ (CloneLanded /\ CloneAtDest) =>
              /\ pc = "done"
              /\ result = CopiedResult(RfVirtualFile(mv.clone.identifier, mv.clone.name))
              /\ result.created
              /\ mv.moves = 0
              /\ MoveEntries = {}
        /\ (CloneLanded /\ ~CloneAtDest) =>
              /\ mv.moves = 1
              /\ mv.m_src = mv.clone
              /\ mv.m_dest = WBPath(mv.dest_given.name, mv.dest_given.parent, None,
                                    IF mv.rebound THEN FALSE ELSE mv.dest_given.is_folder)
              /\ Cardinality(MoveEntries) <= 1
              /\ pc = "done" =>
                    \/ result.kind \in {"NotFoundError", "MetadataError", "IntraMoveError"}
                    \/ /\ result = MovedResult(RfVirtualFile(mv.clone.identifier,
                                                             mv.dest_given.name), TRUE)
                       /\ Cardinality(MoveEntries) = 1

\* a copy onto an existing file whose clone landed under another name has
\* returned what the move returned
C4_Witness ==
    /\ CloneLanded
    /\ ~CloneAtDest
    /\ mv.rebound
    /\ pc = "done"
    /\ result.kind = "moved"
    /\ mv.moves = 1

----------------------------------------------------------------------------
(* _file_metadata *)

\* GET virtualfiles/{id}/history: the file's revisions, one {File: ...} per
\* entry, by ascending tick
RECURSIVE HistoryOf(_, _)
HistoryOf(ticks, k) ==
    IF k > MaxTick THEN <<>>
    ELSE (IF k \in ticks THEN <<[File |-> [Tick |-> k, InternalName |-> 1]]>> ELSE <<>>)
         \o HistoryOf(ticks, k + 1)

Histories == {HistoryOf(ticks, 1) : ticks \in SUBSET (1..MaxTick)}

\* str(x['File']['Tick'])
str(n) == ToString(n)

\* the revision argument: none, empty, a tick as the caller writes it
Revisions == {"none", "", "01"} \cup {str(n) : n \in 0..(MaxTick + 1)}

\* if revision: None and the empty string are false
truthy(revision) == revision # "none" /\ revision # ""

\* as a bug: a tick without an entry falls back on the latest entry
pick_revision_latest(data, revision) ==
    LET hits == {k \in 1..Len(data) : str(data[k].File.Tick) = revision}
    IN  IF hits # {} THEN data[MinOf(hits)]
        ELSE IF data # <<>> THEN data[Len(data)]
        ELSE Raise("NotFoundError")

\* next(x for x in res['Data'] if str(x['File']['Tick']) == revision),
\* StopIteration turned into NotFoundError
pick_revision(data, revision) ==
    LET hits == {k \in 1..Len(data) : str(data[k].File.Tick) = revision}
    IN  IF hits = {} THEN Raise("NotFoundError")
        ELSE data[MinOf(hits)]

\* what _file_metadata returns: the record, raw or as RushFilesFileMetadata
FileMetadata(record, raw) == [kind |-> "file", record |-> record, raw |-> raw]

\* the flat record of GET virtualfiles/{id}
Current(i) == [Tick |-> 0, InternalName |-> i]

\* _file_metadata is called: the url is chosen
file_metadata_call ==
    /\ pc = "idle"
    /\ pc' = "fm_request"
    /\ fm' = [fm EXCEPT !.url = IF truthy(fm.revision) THEN "history" ELSE "metadata"]
    /\ UNCHANGED <<tree, log, result, rv, results, up, dl, mv, cf, rs, rp>>

\* _file_metadata: the request and what is made of the answer
file_metadata_request ==
    /\ pc = "fm_request"
    /\ \E status \in MetadataStatuses(tree, fm.path.identifier) :
        LET picked == pick_revision(fm.history, fm.revision)
        IN  /\ log' = Append(log, [method |-> "GET", what |-> fm.url,
                                   id |-> fm.path.identifier, status |-> status])
            /\ pc' = "done"
            /\ result' = IF status = 404 THEN Raise("NotFoundError")
                         ELSE IF status # 200 THEN Raise("MetadataError")
                         ELSE IF ~truthy(fm.revision)
                         THEN FileMetadata(Current(fm.path.identifier), fm.raw)
                         ELSE IF picked = Raise("NotFoundError") THEN picked
                         ELSE FileMetadata(picked.File, fm.raw)
    /\ UNCHANGED <<tree, rv, results, up, dl, mv, fm, cf, rs, rp>>

InitMetadata ==
    /\ tree = {Entity(1, "a", RootId, TRUE)}
    /\ log = <<>>
    /\ pc = "idle"
    /\ result = NoResult
    /\ rv = <<>>
    /\ results = <<>>
    /\ up = <<>>
    /\ dl = <<>>
    /\ mv = <<>>
    /\ \E i \in {1, StaleId}, revision \in Revisions, raw \in BOOLEAN,
          history \in Histories :
          fm = [path |-> WBPath("a", RootId, i, FALSE), revision |-> revision,
                raw |-> raw, history |-> history, url |-> "none"]
    /\ cf = <<>>
    /\ rs = <<>>
    /\ rp = <<>>

NextMetadata ==
    \/ file_metadata_call
    \/ file_metadata_request

SpecMetadata == InitMetadata /\ [][NextMetadata]_vars

\* the ticks of the file's history
Ticks == {fm.history[k].File.Tick : k \in 1..Len(fm.history)}
\* the ticks a revision string writes out
TickOf(revision) == {n \in 0..(MaxTick + 1) : str(n) = revision}
Answered200 == pc = "done" /\ log[Len(log)].status = 200

(* C10: _file_metadata by a revision whose tick no entry of the history    *)
(* carries raises NotFoundError; by a tick that an entry carries it        *)
(* returns the record of that entry.                                       *)
C10_RevisionByTick ==
    (Answered200 /\ truthy(fm.revision)) =>
        /\ log[Len(log)].what = "history"
        /\ TickOf(fm.revision) \cap Ticks = {} => result = Raise("NotFoundError")
        /\ \A n \in TickOf(fm.revision) \cap Ticks :
              /\ result.kind = "file"
              /\ result.record.Tick = n
              /\ \E k \in 1..Len(fm.history) : fm.history[k].File = result.record

\* a tick missing from a history that has other entries was asked for
C10_Witness ==
    /\ Answered200
    /\ fm.revision = "2"
    /\ Ticks = {1, 3}
    /\ result = Raise("NotFoundError")

----------------------------------------------------------------------------
(* create_folder *)

\* POST files with a CREATE envelope for a folder: 200 and the folder
\* exists, or 500 when the service fails
FolderStatuses == {200, 500}

create_folder_expects == {200}

\* WaterButlerPath.validate_folder: a folder path, not the root
validate_folder(path) ==
    IF ~path.is_folder \/ is_root(path) THEN Raise("CreateFolderError") ELSE Returned

\* create_folder: the envelope
create_folder_body(path) ==
    [ParrentId |-> path.parent, EndOfFile |-> 0, PublicName |-> path.name,
     CreationTime |-> "now", Attributes |-> "DIRECTORY",
     ClientJournalEventType |-> "CREATE"]

FolderMetadata(data) ==
    [kind |-> "folder", InternalName |-> data.InternalName,
     PublicName |-> data.PublicName]

\* create_folder is called: the checks that precede the request
create_folder_call ==
    /\ pc = "idle"
    /\ LET out == IF validate_folder(cf.path) # Returned THEN validate_folder(cf.path)
                  ELSE IF cf.folder_precheck /\ cf.path.identifier # None
                  THEN Raise("FolderNamingConflict")
                  ELSE NoResult
       IN  /\ result' = out
           /\ pc' = IF out = NoResult THEN "cf_request" ELSE "done"
    /\ UNCHANGED <<tree, log, rv, results, up, dl, mv, fm, cf, rs, rp>>

\* create_folder: the request and the metadata made of its answer
create_folder_request ==
    /\ pc = "cf_request"
    /\ \E status \in FolderStatuses :
        LET ok   == status \in create_folder_expects
            data == RfVirtualFile(FreshId(tree), cf.path.name)
        IN  /\ log' = Append(log, [method |-> "POST", what |-> "folder", id |-> None,
                                   status |-> status,
                                   body |-> create_folder_body(cf.path)])
            /\ tree' = IF ok THEN tree \cup {Entity(data.InternalName, cf.path.name,
                                                    cf.path.parent, FALSE)}
                       ELSE tree
            /\ pc' = "done"
            /\ result' = IF ok THEN FolderMetadata(data)
                         ELSE make_request(status, create_folder_expects,
                                           "CreateFolderError")
    /\ UNCHANGED <<rv, results, up, dl, mv, fm, cf, rs, rp>>

\* the paths create_folder is handed: a new name in an existing folder, an
\* existing entity's path, the root
FolderPaths(t) ==
    {WBPath(n, p, None, f) : n \in Names, p \in FolderIds(t), f \in BOOLEAN}
    \cup {PathOf(e) : e \in t}
    \cup {RootPath}

InitFolder ==
    /\ tree \in Trees
    /\ log = <<>>
    /\ pc = "idle"
    /\ result = NoResult
    /\ rv = <<>>
    /\ results = <<>>
    /\ up = <<>>
    /\ dl = <<>>
    /\ mv = <<>>
    /\ fm = <<>>
    /\ \E path \in FolderPaths(tree), precheck \in BOOLEAN :
          cf = [path |-> path, folder_precheck |-> precheck]
    /\ rs = <<>>
    /\ rp = <<>>

----------------------------------------------------------------------------
(* revisions *)

\* as a bug: 404 is accepted, as the metadata requests accept it
revisions_expects_404 == {200, 404}
revisions_expects == {200}

\* RushFilesRevision(each['File']) for each entry of the history
RevisionList(data) == [kind |-> "revisions",
                       list |-> [k \in 1..Len(data) |-> data[k].File]]

\* revisions is called: a path without identifier is not found
revisions_call ==
    /\ pc = "idle"
    /\ pc' = IF rs.path.identifier = None THEN "done" ELSE "rs_request"
    /\ result' = IF rs.path.identifier = None THEN Raise("NotFoundError") ELSE NoResult
    /\ UNCHANGED <<tree, log, rv, results, up, dl, mv, fm, cf, rs, rp>>

\* revisions: the history request
revisions_request ==
    /\ pc = "rs_request"
    /\ \E status \in MetadataStatuses(tree, rs.path.identifier) :
        /\ log' = Append(log, [method |-> "GET", what |-> "revisions",
                               id |-> rs.path.identifier, status |-> status])
        /\ pc' = "done"
        /\ result' = IF status \in revisions_expects THEN RevisionList(rs.history)
                     ELSE make_request(status, revisions_expects, "RevisionsError")
    /\ UNCHANGED <<tree, rv, results, up, dl, mv, fm, cf, rs, rp>>

InitRevisions ==
    /\ tree = {Entity(1, "a", RootId, TRUE)}
    /\ log = <<>>
    /\ pc = "idle"
    /\ result = NoResult
    /\ rv = <<>>
    /\ results = <<>>
    /\ up = <<>>
    /\ dl = <<>>
    /\ mv = <<>>
    /\ fm = <<>>
    /\ cf = <<>>
    /\ \E i \in {1, StaleId, None}, history \in Histories :
          rs = [path |-> WBPath("a", RootId, i, FALSE), history |-> history]
    /\ rp = <<>>

----------------------------------------------------------------------------
(* Every operation of the provider, one call at a time; validate_path    *)
(* walks the shares of at most one entity.                                *)

InitAll ==
    \/ (InitResolve /\ Cardinality(tree) <= 1)
    \/ InitUpload
    \/ InitDelete
    \/ InitMove
    \/ InitMetadata
    \/ InitFolder
    \/ InitRevisions
    \/ InitRevalidate

NextAll ==
    \/ (rv # <<>> /\ validate_path_call)
    \/ validate_path_step
    \/ validate_path_return
    \/ \E u \in DOMAIN up : upload_call(u)
    \/ \E u \in DOMAIN up : upload_exists(u)
    \/ \E u \in DOMAIN up : upload_prior(u)
    \/ \E u \in DOMAIN up : upload_request(u)
    \/ \E u \in DOMAIN up : upload_chunk(u)
    \/ (dl # <<>> /\ delete_call)
    \/ delete_folder_list
    \/ delete_virtual_file
    \/ (mv # <<>> /\ intra_move_call)
    \/ (mv # <<>> /\ intra_copy_call)
    \/ move_metadata
    \/ move_request
    \/ move_children
    \/ copy_clone
    \/ (fm # <<>> /\ file_metadata_call)
    \/ file_metadata_request
    \/ (cf # <<>> /\ create_folder_call)
    \/ create_folder_request
    \/ (rs # <<>> /\ revisions_call)
    \/ revisions_request
    \/ (rp # <<>> /\ revalidate_path_call)
    \/ revalidate_path_request

SpecAll == InitAll /\ [][NextAll]_vars

\* the statuses the code passes as expects= with each request
Expects(r) ==
    IF r.what = "children" THEN {200, 404}
    ELSE IF r.what \in {"metadata", "history"} THEN {200, 404}
    ELSE IF r.what = "files" /\ r.method = "DELETE" THEN {200, 400, 404}
    ELSE IF r.what = "files" THEN {200, 202}
    ELSE IF r.what = "chunk" THEN {200, 201, 202}
    ELSE IF r.what = "clone" THEN {201}
    ELSE {200}

\* the exception the code passes as throws= with each request
Throws(r) ==
    IF r.what \in {"children", "metadata", "history"} THEN "MetadataError"
    ELSE IF r.what = "files" /\ r.method = "DELETE" THEN "DeleteError"
    ELSE IF r.what \in {"files", "chunk"} THEN "UploadError"
    ELSE IF r.what = "move" THEN "IntraMoveError"
    ELSE IF r.what = "clone" THEN "IntraCopyError"
    ELSE IF r.what = "folder" THEN "CreateFolderError"
    ELSE "RevisionsError"

\* the requests answered with a status their call does not accept
Rejected == {k \in 1..Len(log) : log[k].status \notin Expects(log[k])}

\* how the validate_path call numbered c ended, once it has
VpOutcome(c) == IF c <= Len(results) THEN results[c] ELSE result

(* C14: in validate_path, revalidate_path, upload, delete, intra_move,     *)
(* intra_copy, create_folder, _file_metadata and revisions, a request      *)
(* answered with a status outside the set its call accepts is the last     *)
(* request of the operation: the operation is over at once, with the       *)
(* exception that call names, and sends nothing more, the same request     *)
(* included.                                                               *)
C14_NoRetry ==
    \A k \in Rejected :
        IF rv # <<>>
        THEN /\ \A j \in (k + 1)..Len(log) : log[j].call # log[k].call
             /\ log[k].call <= Len(results) \/ pc = "vp_done"
             /\ VpOutcome(log[k].call) = Raise(Throws(log[k]))
        ELSE IF up # <<>>
        THEN /\ \A j \in (k + 1)..Len(log) : log[j].by # log[k].by
             /\ up[log[k].by].pc = "up_done"
             /\ up[log[k].by].result = Raise(Throws(log[k]))
        ELSE /\ k = Len(log)
             /\ pc = "done"
             /\ result = Raise(Throws(log[k]))

\* a copy whose clone had to be moved ended in IntraMoveError when the MOVE
\* request was answered 500
C14_Witness ==
    /\ mv # <<>>
    /\ mv.op = "copy"
    /\ pc = "done"
    /\ Rejected = {Len(log)}
    /\ log[Len(log)].what = "move"
    /\ result = Raise("IntraMoveError")

\* the step is the MOVE request answered 200, and the path has taken the
\* identifier and the name of that answer, nothing else
RenamedByMove(old, new) ==
    /\ pc = "mv_request"
    /\ Len(log') = Len(log) + 1
    /\ log'[Len(log')].what = "move"
    /\ log'[Len(log')].status = 200
    /\ new = [old EXCEPT !.identifier = mv'.data.InternalName,
                         !.name = mv'.data.PublicName]
    /\ mv'.data.InternalName = log'[Len(log')].id

(* C18: no step of any operation changes a path it was handed, but one:    *)
(* the step of intra_move in which the MOVE request is answered 200 gives  *)
(* the destination path the identifier and the name of the answer, and     *)
(* leaves its parent and kind alone.  The source path never changes, and   *)
(* as long as no MOVE request has succeeded (the delete of the             *)
(* destination, the metadata fetch or the MOVE request failed) the         *)
(* destination path is as the caller passed it.                            *)
C18_OnlyMoveRenames ==
    [][/\ \A u \in DOMAIN up : up'[u].path = up[u].path
       /\ dl # <<>> => dl'.path = dl.path
       /\ fm # <<>> => fm'.path = fm.path
       /\ cf # <<>> => cf'.path = cf.path
       /\ rs # <<>> => rs'.path = rs.path
       /\ rp # <<>> => rp'.base = rp.base
       /\ mv # <<>> =>
             /\ mv'.src_path = mv.src_path
             /\ mv.clone # NoPath => mv'.clone = mv.clone
             /\ mv'.dest_path # mv.dest_path =>
                   RenamedByMove(mv.dest_path, mv'.dest_path)
             /\ (mv.new_dest # NoPath /\ mv'.new_dest # mv.new_dest) =>
                   RenamedByMove(mv.new_dest, mv'.new_dest)
             /\ (\A k \in 1..Len(log') :
                      ~(log'[k].what = "move" /\ log'[k].status = 200))
                   => mv'.dest_path = mv.dest_given
      ]_vars

\* a move onto an existing destination has succeeded: the caller's path now
\* carries the source's identifier
C18_Witness ==
    /\ mv # <<>>
    /\ mv.op = "move"
    /\ pc = "done"
    /\ result.kind = "moved"
    /\ mv.dest_given.identifier # None
    /\ mv.dest_path # mv.dest_given
    /\ mv.dest_path.identifier = mv.src_path.identifier

====
